---- MODULE Spec2Model ----
(***************************************************************************)
(* Model of the notebook src/data_analysis.ipynb: workspace setup, the SQL *)
(* template and its substitution, query execution, the CSV hand-off, the   *)
(* statistics / schema steps delegated to the validation library, the      *)
(* manual schema edits, and schema persistence.                            *)
(*                                                                         *)
(* Text is modelled as a sequence of one-character strings, so that        *)
(* str.replace, the SQL lexer and the text serialisation act on characters *)
(* as the code does.                                                       *)
(***************************************************************************)
EXTENDS Integers, Sequences, FiniteSets, TLC

(***************************************************************************)
(* Bounds of the model.                                                    *)
(***************************************************************************)
\* ages 0..MaxAge are tried as thresholds, next to the notebook's 100
MaxAge == 2
\* how many times the analyst re-executes the setup cell in succession
MaxSetupReruns == 2
\* how many times the analyst executes the "Alter the Schema" cell
MaxEdits == 3

(***************************************************************************)
(* Text helpers (Python str semantics on sequences of characters).         *)
(***************************************************************************)
MinOf(S) == CHOOSE x \in S : \A y \in S : x <= y

\* str.find(pat, i): the first index k >= i at which pat occurs in s, 0 if none
NextMatch(s, i, pat) ==
  LET M == {k \in i..(Len(s) - Len(pat) + 1) : SubSeq(s, k, k + Len(pat) - 1) = pat}
  IN IF M = {} THEN 0 ELSE MinOf(M)

\* pat in s
Contains(s, pat) == NextMatch(s, 1, pat) # 0

RECURSIVE CountFrom(_, _, _)
CountFrom(s, i, pat) ==
  LET m == NextMatch(s, i, pat)
  IN IF m = 0 THEN 0 ELSE 1 + CountFrom(s, m + Len(pat), pat)

\* str.count(pat): the number of non-overlapping occurrences
Count(s, pat) == CountFrom(s, 1, pat)

RECURSIVE ReplaceFrom(_, _, _, _)
ReplaceFrom(s, i, old, new) ==
  LET m == NextMatch(s, i, old)
  IN IF m = 0 THEN SubSeq(s, i, Len(s))
     ELSE SubSeq(s, i, m - 1) \o new \o ReplaceFrom(s, m + Len(old), old, new)

\* a str.replace that eats the character after the token
ReplaceGreedy(s, old, new) ==
  LET m == NextMatch(s, 1, old)
  IN IF m = 0 THEN s
     ELSE SubSeq(s, 1, m - 1) \o new \o SubSeq(s, m + Len(old) + 1, Len(s))

\* str.replace(old, new) for a non-empty old: every non-overlapping occurrence,
\* leftmost first, is replaced
Replace(s, old, new) == ReplaceFrom(s, 1, old, new)

Digit(d) ==
  CASE d = 0 -> "0" [] d = 1 -> "1" [] d = 2 -> "2" [] d = 3 -> "3" [] d = 4 -> "4"
    [] d = 5 -> "5" [] d = 6 -> "6" [] d = 7 -> "7" [] d = 8 -> "8" [] d = 9 -> "9"

RECURSIVE NatToStr(_)
NatToStr(n) == IF n < 10 THEN <<Digit(n)>> ELSE NatToStr(n \div 10) \o <<Digit(n % 10)>>

\* str(n) of a Python int: decimal, '-' for negatives, no padding
IntToStr(n) == IF n < 0 THEN <<"-">> \o NatToStr(-n) ELSE NatToStr(n)

DigitChars == {"0", "1", "2", "3", "4", "5", "6", "7", "8", "9"}
DigitValue(c) == CHOOSE d \in 0..9 : Digit(d) = c

RECURSIVE StrToNat(_)
StrToNat(s) ==
  IF Len(s) = 1 THEN DigitValue(s[1])
  ELSE 10 * StrToNat(SubSeq(s, 1, Len(s) - 1)) + DigitValue(s[Len(s)])

IsIntLiteral(s) ==
  LET body == IF Len(s) > 0 /\ s[1] = "-" THEN Tail(s) ELSE s
  IN Len(body) > 0 /\ \A k \in 1..Len(body) : body[k] \in DigitChars

\* the value of an integer literal of the SQL text
StrToInt(s) == IF s[1] = "-" THEN 0 - StrToNat(Tail(s)) ELSE StrToNat(s)

(***************************************************************************)
(* The SQL template and its substitution.                                  *)
(***************************************************************************)
SOURCE_QUERY ==
  <<"\n"," "," "," "," ","S","E","L","E","C","T"," ","\n">>
  \o <<" "," "," "," "," "," "," "," ","a","g","e",",","\n">>
  \o <<" "," "," "," "," "," "," "," ","w","o","r","k","c","l","a","s","s",",","\n">>
  \o <<" "," "," "," "," "," "," "," ","f","n","l","w","g","t",",","\n">>
  \o <<" "," "," "," "," "," "," "," ","e","d","u","c","a","t","i","o","n",",","\n">>
  \o <<" "," "," "," "," "," "," "," ","e","d","u","c","a","t","i","o","n","_","n","u","m",",","\n">>
  \o <<" "," "," "," "," "," "," "," ","m","a","r","i","t","a","l","_","s","t","a","t","u","s",",","\n">>
  \o <<" "," "," "," "," "," "," "," ","o","c","c","u","p","a","t","i","o","n",",","\n">>
  \o <<" "," "," "," "," "," "," "," ","r","e","l","a","t","i","o","n","s","h","i","p",",","\n">>
  \o <<" "," "," "," "," "," "," "," ","r","a","c","e",",","\n">>
  \o <<" "," "," "," "," "," "," "," ","g","e","n","d","e","r",",","\n">>
  \o <<" "," "," "," "," "," "," "," ","c","a","p","i","t","a","l","_","g","a","i","n",",","\n">>
  \o <<" "," "," "," "," "," "," "," ","c","a","p","i","t","a","l","_","l","o","s","s",",","\n">>
  \o <<" "," "," "," "," "," "," "," ","h","o","u","r","s","_","p","e","r","_","w","e","e","k",",","\n">>
  \o <<" "," "," "," "," "," "," "," ","n","a","t","i","v","e","_","c","o","u","n","t","r","y",",","\n">>
  \o <<" "," "," "," "," "," "," "," ","C","A","S","E"," ","W","H","E","N"," ","i","n","c","o","m","e","_","b","r","a","c","k","e","t"," ","="," ","'"," ","<","=","5","0","K","'"," ","T","H","E","N"," ","0"," ","E","L","S","E"," ","1"," ","E","N","D"," ","A","S"," ","i","n","c","o","m","e","_","b","r","a","c","k","e","t","\n">>
  \o <<" "," "," "," ","F","R","O","M"," ","\n">>
  \o <<" "," "," "," "," "," "," "," ","@","d","a","t","a","s","e","t","_","n","a","m","e",".","c","e","n","s","u","s","\n">>
  \o <<" "," "," "," ","W","H","E","R","E","\n">>
  \o <<" "," "," "," "," "," "," "," ","a","g","e"," ","<","="," ","@","a","g","e","\n">>

AgeToken == <<"@","a","g","e">>

\* a token cut short
DatasetTokenShort == <<"@","d","a","t","a","s","e","t">>

DatasetToken == <<"@","d","a","t","a","s","e","t","_","n","a","m","e">>

\* the literals of the notebook's own call
NotebookAge == 100
NotebookDataset == <<"s","a","m","p","l","e","_","d","a","t","a","s","e","t">>

\* dataset names tried: BigQuery dataset ids (letters, digits, underscores)
Datasets ==
  { NotebookDataset, <<"s","a","m","p","l","e","_","d","a","t","a","s","e","t","s">>, <<"d">>, <<"a","g","e">>, <<"d","a","t","a","s","e","t","_","n","a","m","e","_","2">> }

\* age thresholds tried
Ages == (-1..MaxAge) \cup {10, NotebookAge}

\* SOURCE_QUERY.replace('@age', <age>)
SubstituteAge(text, a) == Replace(text, AgeToken, IntToStr(a))

\* .replace('@dataset_name', <dataset>)
SubstituteDataset(text, d) == Replace(text, DatasetToken, d)

\* sql = SOURCE_QUERY.replace('@age', ...).replace('@dataset_name', ...)
GenerateSql(template, a, d) == SubstituteDataset(SubstituteAge(template, a), d)

(***************************************************************************)
(* The warehouse: a lexer and an evaluator for the one query shape the     *)
(* template has (SELECT items FROM table WHERE column <= literal), with    *)
(* SQL's three-valued comparison.                                          *)
(***************************************************************************)
IsSpace(c) == c \in {" ", "\n"}

\* first index >= i of a character satisfying / not satisfying IsSpace, 0 if none
NextNonSpace(s, i) ==
  LET M == {k \in i..Len(s) : ~IsSpace(s[k])} IN IF M = {} THEN 0 ELSE MinOf(M)

\* the index of the last character of the token starting at i
TokenEnd(s, i) ==
  IF s[i] = ","
  THEN i
  ELSE IF s[i] = "'"
  THEN LET M == {k \in (i + 1)..Len(s) : s[k] = "'"} IN IF M = {} THEN Len(s) ELSE MinOf(M)
  ELSE LET M == {k \in i..Len(s) : IsSpace(s[k]) \/ s[k] = ","}
       IN IF M = {} THEN Len(s) ELSE MinOf(M) - 1

RECURSIVE LexFrom(_, _)
LexFrom(s, i) ==
  LET b == NextNonSpace(s, i)
  IN IF i > Len(s) \/ b = 0 THEN << >>
     ELSE LET e == TokenEnd(s, b) IN <<SubSeq(s, b, e)>> \o LexFrom(s, e + 1)

\* the tokens of a SQL text: words, commas, and quoted literals kept whole
Lex(s) == LexFrom(s, 1)

\* first index >= i of token w in the token list, 0 if none
TokenIndex(toks, i, w) ==
  LET M == {k \in i..Len(toks) : toks[k] = w} IN IF M = {} THEN 0 ELSE MinOf(M)

RECURSIVE SplitItems(_, _, _)
SplitItems(toks, i, last) ==
  IF i > last THEN << >>
  ELSE LET c == TokenIndex(SubSeq(toks, 1, last), i, <<",">>)
           e == IF c = 0 THEN last ELSE c - 1
       IN <<SubSeq(toks, i, e)>> \o SplitItems(toks, e + 2, last)

\* the parsed query: select items, table reference, filter
ParseQuery(text) ==
  LET toks == Lex(text)
      s == TokenIndex(toks, 1, <<"S","E","L","E","C","T">>)
      f == TokenIndex(toks, 1, <<"F","R","O","M">>)
      w == TokenIndex(toks, 1, <<"W","H","E","R","E">>)
  IN [ ok |-> s = 1 /\ f > s + 1 /\ w = f + 2 /\ Len(toks) = w + 3
                /\ toks[w + 2] = <<"<","=">> /\ IsIntLiteral(toks[w + 3]),
       items |-> IF f > s + 1 THEN SplitItems(toks, s + 1, f - 1) ELSE << >>,
       table |-> IF f > 0 /\ Len(toks) > f THEN toks[f + 1] ELSE << >>,
       where_column |-> IF w > 0 /\ Len(toks) > w THEN toks[w + 1] ELSE << >>,
       where_literal |-> IF w > 0 /\ Len(toks) >= w + 3 THEN toks[w + 3] ELSE << >> ]

\* the name of the output column of a select item: the alias after AS, or
\* the column itself
ItemName(item) == item[Len(item)]

\* the names of the output columns, in order
OutputColumns(text) ==
  LET q == ParseQuery(text) IN [k \in 1..Len(q.items) |-> ItemName(q.items[k])]

\* SQL values: [int |-> n], [str |-> text], or NULL
NULL == [null |-> TRUE]
IntVal(n) == [int |-> n]
StrVal(t) == [str |-> t]

\* the value of a literal token: 'text' or an integer
Literal(tok) ==
  IF tok[1] = "'" THEN StrVal(SubSeq(tok, 2, Len(tok) - 1)) ELSE IntVal(StrToInt(tok))

\* x = y in SQL: unknown when either side is NULL
SqlEq(x, y) == IF x = NULL \/ y = NULL THEN "UNKNOWN" ELSE IF x = y THEN "TRUE" ELSE "FALSE"

\* x <= y in SQL on integers: unknown when either side is NULL
SqlLe(x, y) ==
  IF x = NULL \/ y = NULL THEN "UNKNOWN" ELSE IF x.int <= y.int THEN "TRUE" ELSE "FALSE"

\* a CASE that yields NULL when its condition is unknown
CaseWhenStrict(cond, thenv, elsev) ==
  IF cond = "TRUE" THEN thenv ELSE IF cond = "FALSE" THEN elsev ELSE NULL

\* CASE WHEN cond THEN thenv ELSE elsev END: thenv only when cond is true
CaseWhen(cond, thenv, elsev) == IF cond = "TRUE" THEN thenv ELSE elsev

\* the value of one select item on a source row:
\* a column, or CASE WHEN column = literal THEN literal ELSE literal END AS alias
EvalItem(item, row) ==
  IF Len(item) = 1 THEN row[item[1]]
  ELSE CaseWhen(SqlEq(row[item[3]], Literal(item[5])), Literal(item[7]), Literal(item[9]))

\* the output row of the query for one source row
Project(q, row) ==
  [c \in {ItemName(q.items[k]) : k \in 1..Len(q.items)} |->
     LET k == CHOOSE j \in 1..Len(q.items) : ItemName(q.items[j]) = c
     IN EvalItem(q.items[k], row)]

RECURSIVE SelectRows(_, _)
SelectRows(q, rows) ==
  IF rows = << >> THEN << >>
  ELSE LET keep == SqlLe(Head(rows)[q.where_column], IntVal(StrToInt(q.where_literal))) = "TRUE"
       IN (IF keep THEN <<Project(q, Head(rows))>> ELSE << >>) \o SelectRows(q, Tail(rows))

\* client.query(sql).to_dataframe() on a table: the rows passing the filter,
\* projected, in table order
RunQuery(text, rows) == SelectRows(ParseQuery(text), rows)

(***************************************************************************)
(* The warehouse table <dataset>.census.                                   *)
(***************************************************************************)
TARGET_FEATURE_NAME == <<"i","n","c","o","m","e","_","b","r","a","c","k","e","t">>
WEIGHT_FEATURE_NAME == <<"f","n","l","w","g","t">>

\* the column list of the SELECT, in order
SelectedColumns ==
  << <<"a","g","e">>, <<"w","o","r","k","c","l","a","s","s">>, <<"f","n","l","w","g","t">>, <<"e","d","u","c","a","t","i","o","n">>, <<"e","d","u","c","a","t","i","o","n","_","n","u","m">>, <<"m","a","r","i","t","a","l","_","s","t","a","t","u","s">>,
     <<"o","c","c","u","p","a","t","i","o","n">>, <<"r","e","l","a","t","i","o","n","s","h","i","p">>, <<"r","a","c","e">>, <<"g","e","n","d","e","r">>, <<"c","a","p","i","t","a","l","_","g","a","i","n">>, <<"c","a","p","i","t","a","l","_","l","o","s","s">>,
     <<"h","o","u","r","s","_","p","e","r","_","w","e","e","k">>, <<"n","a","t","i","v","e","_","c","o","u","n","t","r","y">>, <<"i","n","c","o","m","e","_","b","r","a","c","k","e","t">> >>

LowBracket == StrVal(<<" ","<","=","5","0","K">>)
HighBracket == StrVal(<<" ",">","5","0","K">>)

\* a row of the census table; the fields that no claim reads are held fixed
CensusRow(a, occ, country, bracket) ==
  [c \in {SelectedColumns[k] : k \in 1..Len(SelectedColumns)} |->
     CASE c = <<"a","g","e">> -> a
       [] c = <<"w","o","r","k","c","l","a","s","s">> -> StrVal(<<"P","r","i","v","a","t","e">>)
       [] c = <<"f","n","l","w","g","t">> -> IntVal(148657)
       [] c = <<"e","d","u","c","a","t","i","o","n">> -> StrVal(<<"9","t","h">>)
       [] c = <<"e","d","u","c","a","t","i","o","n","_","n","u","m">> -> IntVal(5)
       [] c = <<"m","a","r","i","t","a","l","_","s","t","a","t","u","s">> -> StrVal(<<"M","a","r","r","i","e","d","-","c","i","v","-","s","p","o","u","s","e">>)
       [] c = <<"o","c","c","u","p","a","t","i","o","n">> -> occ
       [] c = <<"r","e","l","a","t","i","o","n","s","h","i","p">> -> StrVal(<<"W","i","f","e">>)
       [] c = <<"r","a","c","e">> -> StrVal(<<"W","h","i","t","e">>)
       [] c = <<"g","e","n","d","e","r">> -> StrVal(<<"F","e","m","a","l","e">>)
       [] c = <<"c","a","p","i","t","a","l","_","g","a","i","n">> -> IntVal(0)
       [] c = <<"c","a","p","i","t","a","l","_","l","o","s","s">> -> IntVal(0)
       [] c = <<"h","o","u","r","s","_","p","e","r","_","w","e","e","k">> -> IntVal(40)
       [] c = <<"n","a","t","i","v","e","_","c","o","u","n","t","r","y">> -> country
       [] c = <<"i","n","c","o","m","e","_","b","r","a","c","k","e","t">> -> bracket]

\* contents of the table tried: the two expected categories, a category
\* without the leading blank, an empty one, a missing one; ages around the
\* thresholds, one above 100 and one missing
TableMixed ==
  << CensusRow(IntVal(0), StrVal(<<"?">>), StrVal(<<"M","e","x","i","c","o">>), LowBracket),
     CensusRow(IntVal(1), StrVal(<<"S","a","l","e","s">>), StrVal(<<"C","a","m","b","o","d","i","a">>), HighBracket),
     CensusRow(IntVal(54), StrVal(<<"S","a","l","e","s">>), StrVal(<<"M","e","x","i","c","o">>), NULL),
     CensusRow(IntVal(101), StrVal(<<"?">>), StrVal(<<"U","n","i","t","e","d","-","S","t","a","t","e","s">>), LowBracket) >>

TableOddLabels ==
  << CensusRow(IntVal(2), StrVal(<<"S","a","l","e","s">>), StrVal(<<"M","e","x","i","c","o">>), StrVal(<<"<","=","5","0","K">>)),
     CensusRow(IntVal(10), StrVal(<<"?">>), StrVal(<<"M","e","x","i","c","o">>), StrVal(<<>>)),
     CensusRow(NULL, StrVal(<<"S","a","l","e","s">>), StrVal(<<"M","e","x","i","c","o">>), HighBracket),
     CensusRow(IntVal(100), StrVal(<<"?">>), StrVal(<<"U","n","i","t","e","d","-","S","t","a","t","e","s">>), StrVal(<<" ","<","=","5","0","k">>)) >>

\* a table whose native_country column holds no value at all
TableNoCountry ==
  << CensusRow(IntVal(32), StrVal(<<"S","a","l","e","s">>), NULL, LowBracket),
     CensusRow(IntVal(46), NULL, NULL, HighBracket) >>

Tables == { TableMixed, TableOddLabels, TableNoCountry }

(***************************************************************************)
(* The local filesystem.  A path is the sequence of its components; the    *)
(* filesystem maps each existing path to a directory or to a file with its *)
(* content.  A file's content is a sequence of lines, a line a sequence of *)
(* fields, a field a text.                                                 *)
(***************************************************************************)
WORKSPACE == << "workspace" >>
RAW_SCHEMA_DIR == << "raw_schema" >>

\* os.path.join(dir, name)
PathJoin(dir, name) == dir \o << name >>

DATA_DIR == PathJoin(WORKSPACE, "data")
TRAIN_DATA_FILE == PathJoin(DATA_DIR, "train.csv")
raw_schema_location == PathJoin(RAW_SCHEMA_DIR, "schema.pbtxt")

Dir == [kind |-> "dir", content |-> << >>]
File(content) == [kind |-> "file", content |-> content]

IsPrefix(p, q) == Len(p) <= Len(q) /\ SubSeq(q, 1, Len(p)) = p

\* os.path.exists / tf.io.gfile.exists
Exists(f, p) == p \in DOMAIN f

IsDir(f, p) == Exists(f, p) /\ f[p].kind = "dir"

\* the entries directly inside directory p
Entries(f, p) == {q \in DOMAIN f : Len(q) = Len(p) + 1 /\ IsPrefix(p, q)}

\* a removal that does not descend: p and its direct entries go, what lies
\* deeper stays
RmtreeShallow(f, p) ==
  [q \in {r \in DOMAIN f : ~(IsPrefix(p, r) /\ Len(r) <= Len(p) + 1)} |-> f[q]]

\* shutil.rmtree / tf.io.gfile.rmtree: p and everything below it is removed
Rmtree(f, p) == [q \in {r \in DOMAIN f : ~IsPrefix(p, r)} |-> f[q]]

\* os.mkdir / tf.io.gfile.mkdir of a path that does not exist
Mkdir(f, p) == [q \in DOMAIN f \cup {p} |-> IF q = p THEN Dir ELSE f[q]]

\* open(p, 'w').write(content): the file is created or truncated
WriteFile(f, p, content) ==
  [q \in DOMAIN f \cup {p} |-> IF q = p THEN File(content) ELSE f[q]]

\* os.mkdir succeeds only if the parent exists and the path does not
CanMkdir(f, p) ==
  /\ ~Exists(f, p)
  /\ (Len(p) > 1 => IsDir(f, SubSeq(p, 1, Len(p) - 1)))

\* opening a file for writing succeeds only inside an existing directory
CanWrite(f, p) ==
  /\ IsDir(f, SubSeq(p, 1, Len(p) - 1))
  /\ ~IsDir(f, p)

StaleText == << << <<"l","e","f","t"," ","o","v","e","r"," ","f","r","o","m"," ","a","n"," ","e","a","r","l","i","e","r"," ","r","u","n">> >> >>

NoFs == [q \in {} |-> Dir]

FsOf(S) == [q \in {x[1] : x \in S} |-> (CHOOSE x \in S : x[1] = q)[2]]

\* what the workspace root may hold before the notebook runs
WorkspaceAbsent == {}
WorkspaceEmpty == { <<WORKSPACE, Dir>> }
WorkspaceFromEarlierRun ==
  { <<WORKSPACE, Dir>>, <<DATA_DIR, Dir>>, <<TRAIN_DATA_FILE, File(StaleText)>> }
WorkspaceWithOtherFiles ==
  { <<WORKSPACE, Dir>>, <<PathJoin(WORKSPACE, "notes.txt"), File(StaleText)>>,
    <<DATA_DIR, Dir>>, <<TRAIN_DATA_FILE, File(StaleText)>>,
    <<PathJoin(DATA_DIR, "eval.csv"), File(StaleText)>> }

\* what raw_schema may hold before the notebook runs
RawSchemaAbsent == {}
RawSchemaEmpty == { <<RAW_SCHEMA_DIR, Dir>> }
RawSchemaFromEarlierRun ==
  { <<RAW_SCHEMA_DIR, Dir>>, <<raw_schema_location, File(StaleText)>> }
RawSchemaWithOtherFiles ==
  { <<RAW_SCHEMA_DIR, Dir>>, <<raw_schema_location, File(StaleText)>>,
    <<PathJoin(RAW_SCHEMA_DIR, "schema.bak"), File(StaleText)>>,
    <<PathJoin(RAW_SCHEMA_DIR, "old"), Dir>>,
    <<PathJoin(PathJoin(RAW_SCHEMA_DIR, "old"), "schema.pbtxt"), File(StaleText)>> }

\* the filesystems a run may start from: a first run, and runs after earlier ones
InitialFilesystems ==
  { FsOf(WorkspaceAbsent \cup RawSchemaAbsent),
    FsOf(WorkspaceEmpty \cup RawSchemaEmpty),
    FsOf(WorkspaceEmpty \cup RawSchemaWithOtherFiles),
    FsOf(WorkspaceFromEarlierRun \cup RawSchemaFromEarlierRun),
    FsOf(WorkspaceWithOtherFiles \cup RawSchemaAbsent),
    FsOf(WorkspaceWithOtherFiles \cup RawSchemaWithOtherFiles) }

(***************************************************************************)
(* The CSV hand-off, and the statistics and schema steps of the validation *)
(* library as far as the notebook depends on them.                         *)
(***************************************************************************)
\* the text pandas writes for one cell: integers in decimal, missing as empty
CsvField(v) == IF v = NULL THEN <<>> ELSE IF "int" \in DOMAIN v THEN IntToStr(v.int) ELSE v.str

\* df.to_csv(path, index=False): a header line, then one line per row
ToCsv(frame) ==
  << frame.columns >> \o
  [r \in 1..Len(frame.rows) |->
     [k \in 1..Len(frame.columns) |-> CsvField(frame.rows[r][frame.columns[k]])]]

RECURSIVE Distinct(_)
Distinct(s) ==
  IF s = << >> THEN << >>
  ELSE LET rest == Distinct(SubSeq(s, 1, Len(s) - 1))
           x == s[Len(s)]
       IN IF \E k \in 1..Len(rest) : rest[k] = x THEN rest ELSE Append(rest, x)

NonEmpty(t) == t # <<>>

\* tfdv.generate_statistics_from_csv(data_location, column_names=None, ...):
\* the header names the features; per feature the values seen, missing cells left out
GenerateStatistics(csv) ==
  LET header == csv[1]
      n == Len(csv) - 1
  IN [ num_examples |-> n,
       features |->
         [k \in 1..Len(header) |->
            LET cells == SelectSeq([r \in 1..n |-> csv[r + 1][k]], NonEmpty)
            IN [ name |-> header[k],
                 type |-> IF cells # << >> /\ \A j \in 1..Len(cells) : IsIntLiteral(cells[j])
                          THEN <<"I","N","T">> ELSE <<"B","Y","T","E","S">>,
                 values |-> Distinct(cells) ]] ]

NoConstraint == [present |-> FALSE, tenths |-> 10]

HasStringDomain(st) == st.type = <<"B","Y","T","E","S">> /\ st.values # << >>

\* tfdv.infer_schema(statistics): one feature per column; a string feature that
\* has values gets a domain named after it holding those values; no environments
InferSchema(stats) ==
  [ feature |->
      [k \in 1..Len(stats.features) |->
         LET st == stats.features[k]
         IN [ name |-> st.name,
              type |-> st.type,
              domain |-> IF HasStringDomain(st) THEN st.name ELSE <<>>,
              min_domain_mass |-> NoConstraint,
              not_in_environment |-> << >> ]],
    string_domain |->
      LET withDomain == SelectSeq(stats.features, HasStringDomain)
      IN [k \in 1..Len(withDomain) |->
            [name |-> withDomain[k].name, value |-> withDomain[k].values]],
    default_environment |-> << >> ]

(***************************************************************************)
(* The manual edits of the "Alter the Schema" cell.                        *)
(***************************************************************************)
\* tfdv.get_feature(schema, name) finds a feature
HasFeature(sch, name) == \E k \in 1..Len(sch.feature) : sch.feature[k].name = name

FeatureIndex(sch, name) == CHOOSE k \in 1..Len(sch.feature) : sch.feature[k].name = name

\* tfdv.get_feature(schema, name)
GetFeature(sch, name) == sch.feature[FeatureIndex(sch, name)]

\* tfdv.get_domain(schema, name) finds a domain
HasDomain(sch, name) ==
  /\ HasFeature(sch, name)
  /\ \E k \in 1..Len(sch.string_domain) : sch.string_domain[k].name = GetFeature(sch, name).domain

DomainIndex(sch, name) ==
  CHOOSE k \in 1..Len(sch.string_domain) : sch.string_domain[k].name = GetFeature(sch, name).domain

\* tfdv.get_domain(schema, name)
GetDomain(sch, name) == sch.string_domain[DomainIndex(sch, name)]

Tenths(n) == [present |-> TRUE, tenths |-> n]

\* occupation.distribution_constraints.min_domain_mass = 0.9
RelaxOccupation(sch) ==
  [sch EXCEPT !.feature[FeatureIndex(sch, <<"o","c","c","u","p","a","t","i","o","n">>)].min_domain_mass = Tenths(9)]

\* an append that first looks whether the value is already there
AppendIfAbsent(list, x) ==
  IF \E k \in 1..Len(list) : list[k] = x THEN list ELSE Append(list, x)

\* repeated_field.append(x)
AppendValue(list, x) == Append(list, x)

\* native_country_domain.value.append('Egypt')
ExtendNativeCountry(sch) ==
  [sch EXCEPT !.string_domain[DomainIndex(sch, <<"n","a","t","i","v","e","_","c","o","u","n","t","r","y">>)].value =
                 AppendValue(@, <<"E","g","y","p","t">>)]

\* schema.default_environment.append('TRAINING'), then 'EVALUATION', then 'SERVING'
RegisterEnvironments(sch) ==
  [sch EXCEPT !.default_environment =
                 AppendValue(AppendValue(AppendValue(@, <<"T","R","A","I","N","I","N","G">>), <<"E","V","A","L","U","A","T","I","O","N">>), <<"S","E","R","V","I","N","G">>)]

\* tfdv.get_feature(schema, TARGET_FEATURE_NAME).not_in_environment.append('SERVING')
LabelNotInServing(sch) ==
  [sch EXCEPT !.feature[FeatureIndex(sch, TARGET_FEATURE_NAME)].not_in_environment =
                 AppendValue(@, <<"S","E","R","V","I","N","G">>)]

\* an edit cell that marks every feature absent from SERVING
AlterSchemaAllFeatures(sch) ==
  LET s3 == RegisterEnvironments(ExtendNativeCountry(RelaxOccupation(sch)))
  IN [s3 EXCEPT !.feature =
        [k \in 1..Len(s3.feature) |->
           [s3.feature[k] EXCEPT !.not_in_environment = AppendValue(@, <<"S","E","R","V","I","N","G">>)]]]

\* the whole cell, in the order of its statements
AlterSchema(sch) ==
  LabelNotInServing(RegisterEnvironments(ExtendNativeCountry(RelaxOccupation(sch))))

\* the cell runs through: both lookups by name succeed
CanAlter(sch) ==
  /\ HasFeature(sch, <<"o","c","c","u","p","a","t","i","o","n">>)
  /\ HasDomain(sch, <<"n","a","t","i","v","e","_","c","o","u","n","t","r","y">>)
  /\ HasFeature(sch, TARGET_FEATURE_NAME)

\* the state the cell leaves behind when a lookup raises: the statements
\* before the failing one have taken effect
AlterSchemaPartial(sch) ==
  IF ~HasFeature(sch, <<"o","c","c","u","p","a","t","i","o","n">>) THEN sch
  ELSE IF ~HasDomain(sch, <<"n","a","t","i","v","e","_","c","o","u","n","t","r","y">>) THEN RelaxOccupation(sch)
  ELSE RegisterEnvironments(ExtendNativeCountry(RelaxOccupation(sch)))

(***************************************************************************)
(* The text format of the schema file: one field per line, a nested        *)
(* message between "name {" and "}", strings quoted, repeated fields one   *)
(* line per element in order, unset fields absent.                         *)
(***************************************************************************)
Quote(t) == <<"\"">> \o t \o <<"\"">>
Unquote(t) == SubSeq(t, 2, Len(t) - 1)

\* the text of a double with one decimal
FormatTenths(n) == IntToStr(n \div 10) \o <<".">> \o << Digit(n % 10) >>

\* the double a text with one decimal denotes
ParseTenths(t) ==
  LET dot == NextMatch(t, 1, <<".">>)
  IN 10 * StrToNat(SubSeq(t, 1, dot - 1)) + StrToNat(SubSeq(t, dot + 1, Len(t)))

RECURSIVE Flatten(_)
Flatten(ss) == IF ss = << >> THEN << >> ELSE Head(ss) \o Flatten(Tail(ss))

RepeatedLines(key, list) == [k \in 1..Len(list) |-> << key, Quote(list[k]) >>]

\* a writer that writes each repeated value once
RepeatedLinesOnce(key, list) == RepeatedLines(key, Distinct(list))

FeatureLines(f) ==
  << << <<"f","e","a","t","u","r","e">>, <<"{">> >>, << <<"n","a","m","e",":">>, Quote(f.name) >>, << <<"t","y","p","e",":">>, f.type >> >>
  \o (IF f.domain # <<>> THEN << << <<"d","o","m","a","i","n",":">>, Quote(f.domain) >> >> ELSE << >>)
  \o (IF f.min_domain_mass.present
      THEN << << <<"d","i","s","t","r","i","b","u","t","i","o","n","_","c","o","n","s","t","r","a","i","n","t","s">>, <<"{">> >>,
              << <<"m","i","n","_","d","o","m","a","i","n","_","m","a","s","s",":">>, FormatTenths(f.min_domain_mass.tenths) >>,
              << <<"}">> >> >>
      ELSE << >>)
  \o RepeatedLines(<<"n","o","t","_","i","n","_","e","n","v","i","r","o","n","m","e","n","t",":">>, f.not_in_environment)
  \o << << <<"}">> >> >>

DomainLines(d) ==
  << << <<"s","t","r","i","n","g","_","d","o","m","a","i","n">>, <<"{">> >>, << <<"n","a","m","e",":">>, Quote(d.name) >> >>
  \o RepeatedLines(<<"v","a","l","u","e",":">>, d.value)
  \o << << <<"}">> >> >>

\* a serialisation that drops repeated values already written
SchemaToTextDedup(sch) ==
  Flatten([k \in 1..Len(sch.feature) |-> FeatureLines(sch.feature[k])])
  \o Flatten([k \in 1..Len(sch.string_domain) |->
                << << <<"s","t","r","i","n","g","_","d","o","m","a","i","n">>, <<"{">> >>, << <<"n","a","m","e",":">>, Quote(sch.string_domain[k].name) >> >>
                \o RepeatedLinesOnce(<<"v","a","l","u","e",":">>, sch.string_domain[k].value)
                \o << << <<"}">> >> >>])
  \o RepeatedLinesOnce(<<"d","e","f","a","u","l","t","_","e","n","v","i","r","o","n","m","e","n","t",":">>, sch.default_environment)

\* text_format.MessageToString(schema), as tfdv.write_schema_text writes it
SchemaToText(sch) ==
  Flatten([k \in 1..Len(sch.feature) |-> FeatureLines(sch.feature[k])])
  \o Flatten([k \in 1..Len(sch.string_domain) |-> DomainLines(sch.string_domain[k])])
  \o RepeatedLines(<<"d","e","f","a","u","l","t","_","e","n","v","i","r","o","n","m","e","n","t",":">>, sch.default_environment)

EmptySchema == [feature |-> << >>, string_domain |-> << >>, default_environment |-> << >>]

Opens(line) == Len(line) = 2 /\ line[2] = <<"{">>
Closes(line) == line = << <<"}">> >>

\* how many messages are open before line i
Depth(lines, i) ==
  Cardinality({j \in 1..(i - 1) : Opens(lines[j])})
  - Cardinality({j \in 1..(i - 1) : Closes(lines[j])})

\* the lines of `lines` that are fields of the message itself, not of a nested one
DirectFields(lines) ==
  LET Direct(i) == Depth(lines, i) = 0 /\ ~Opens(lines[i]) /\ ~Closes(lines[i])
      idx == SelectSeq([i \in 1..Len(lines) |-> i], Direct)
  IN [k \in 1..Len(idx) |-> lines[idx[k]]]

\* the bodies of the nested messages called `name`, in order
NestedMessages(lines, name) ==
  LET Starts(i) == Depth(lines, i) = 0 /\ lines[i] = << name, <<"{">> >>
      idx == SelectSeq([i \in 1..Len(lines) |-> i], Starts)
      End(i) == MinOf({j \in (i + 1)..Len(lines) : Closes(lines[j]) /\ Depth(lines, j) = 1})
  IN [k \in 1..Len(idx) |-> SubSeq(lines, idx[k] + 1, End(idx[k]) - 1)]

\* the values of a repeated field, in order of appearance
RepeatedField(fields, key) ==
  LET Is(line) == line[1] = key
      hits == SelectSeq(fields, Is)
  IN [k \in 1..Len(hits) |-> hits[k][2]]

\* the value of an optional field: the last one given, else the default
OptionalField(fields, key, default) ==
  LET vals == RepeatedField(fields, key)
  IN IF vals = << >> THEN default ELSE vals[Len(vals)]

UnquoteAll(vals) == [k \in 1..Len(vals) |-> Unquote(vals[k])]

ParseConstraints(blocks) ==
  IF blocks = << >> THEN NoConstraint
  ELSE LET v == OptionalField(DirectFields(blocks[Len(blocks)]), <<"m","i","n","_","d","o","m","a","i","n","_","m","a","s","s",":">>, <<>>)
       IN IF v = <<>> THEN NoConstraint ELSE Tenths(ParseTenths(v))

ParseFeature(body) ==
  LET fields == DirectFields(body)
  IN [ name |-> Unquote(OptionalField(fields, <<"n","a","m","e",":">>, Quote(<<>>))),
       type |-> OptionalField(fields, <<"t","y","p","e",":">>, <<>>),
       domain |-> Unquote(OptionalField(fields, <<"d","o","m","a","i","n",":">>, Quote(<<>>))),
       min_domain_mass |-> ParseConstraints(NestedMessages(body, <<"d","i","s","t","r","i","b","u","t","i","o","n","_","c","o","n","s","t","r","a","i","n","t","s">>)),
       not_in_environment |-> UnquoteAll(RepeatedField(fields, <<"n","o","t","_","i","n","_","e","n","v","i","r","o","n","m","e","n","t",":">>)) ]

ParseDomain(body) ==
  LET fields == DirectFields(body)
  IN [ name |-> Unquote(OptionalField(fields, <<"n","a","m","e",":">>, Quote(<<>>))),
       value |-> UnquoteAll(RepeatedField(fields, <<"v","a","l","u","e",":">>)) ]

\* text_format.Parse(text, Schema()), as tfdv.load_schema_text reads it
TextToSchema(lines) ==
  LET features == NestedMessages(lines, <<"f","e","a","t","u","r","e">>)
      domains == NestedMessages(lines, <<"s","t","r","i","n","g","_","d","o","m","a","i","n">>)
  IN [ feature |-> [k \in 1..Len(features) |-> ParseFeature(features[k])],
       string_domain |-> [k \in 1..Len(domains) |-> ParseDomain(domains[k])],
       default_environment |->
         UnquoteAll(RepeatedField(DirectFields(lines), <<"d","e","f","a","u","l","t","_","e","n","v","i","r","o","n","m","e","n","t",":">>)) ]

\* tfdv.write_schema_text(schema, path)
WriteSchemaText(f, sch, path) == WriteFile(f, path, SchemaToText(sch))

\* tfdv.load_schema_text(path)
LoadSchemaText(f, path) == TextToSchema(f[path].content)

(***************************************************************************)
(* The notebook as a state machine.  pc is the statement that runs next    *)
(* when the cells are executed top to bottom.                              *)
(***************************************************************************)
VARIABLES
  pc,            \* the next statement; "done" after the last cell, "halted" after an error
  fs,            \* the local filesystem
  source_query,  \* SOURCE_QUERY
  sql,           \* sql
  df,            \* df: the query result, columns and rows
  train_stats,   \* train_stats
  schema,        \* schema
  loaded,        \* the value of the last cell, tfdv.load_schema_text(...)
  error,         \* the exception the kernel shows, "none" while there is none
  failed_at,     \* the statement that raised it
  log,           \* the cells completed so far, in order
  setups,        \* completed executions of the setup cell
  edits,         \* completed executions of the "Alter the Schema" cell
  age,           \* the age threshold substituted for @age
  dataset_name,  \* the dataset name substituted for @dataset_name
  table,         \* the rows of <dataset>.census in the warehouse
  fs_before      \* the filesystem as the run found it

vars ==
  << pc, fs, source_query, sql, df, train_stats, schema, loaded, error, failed_at, log,
     setups, edits, age, dataset_name, table, fs_before >>

NoFrame == [columns |-> << >>, rows |-> << >>]
NoStats == [num_examples |-> 0, features |-> << >>]

\* the steps of the notebook, top to bottom
StepOrder ==
  << "setup", "explore", "define_query", "template", "query", "generate_source_query",
     "to_csv", "statistics", "infer_schema", "alter_schema", "save_schema", "load_schema" >>

\* the exception each failing call raises
ErrorRaisedAt(step) ==
  CASE step \in {"setup_rmtree", "setup_mkdir_workspace", "setup_mkdir_data"} -> "tf.errors.OpError"
    [] step \in {"explore", "query"} -> "google.api_core.exceptions.GoogleAPIError"
    [] step = "generate_source_query" -> "ImportError"
    [] step \in {"to_csv", "save_rmtree", "save_mkdir", "save_write"} -> "OSError"
    [] step \in {"statistics", "infer_schema", "load_schema"} -> "tfdv error"
    [] step = "alter_schema" -> "ValueError"

\* no cell catches anything: the kernel shows the exception as raised
ErrorShown(step) == ErrorRaisedAt(step)

\* a handler that runs the failed statement again
AfterFailureRetry(step) == step

\* an uncaught exception ends the run
AfterFailure(step) == "halted"

Halt(step) ==
  /\ error' = ErrorShown(step)
  /\ failed_at' = step
  /\ pc' = AfterFailure(step)

Completed(step) == log' = Append(log, step)

Init ==
  /\ pc = "setup_rmtree"
  /\ fs \in InitialFilesystems
  /\ fs_before = fs
  /\ table \in Tables
  /\ age = NotebookAge
  /\ dataset_name = NotebookDataset
  /\ source_query = <<>>
  /\ sql = <<>>
  /\ df = NoFrame
  /\ train_stats = NoStats
  /\ schema = EmptySchema
  /\ loaded = EmptySchema
  /\ error = "none"
  /\ failed_at = "none"
  /\ log = << >>
  /\ setups = 0
  /\ edits = 0

(* ---- the setup cell ---------------------------------------------------- *)
\* if tf.io.gfile.exists(WORKSPACE): tf.io.gfile.rmtree(WORKSPACE)
ClearWorkspace(f) == IF Exists(f, WORKSPACE) THEN Rmtree(f, WORKSPACE) ELSE f

\* the cell is next in order, or the analyst executes it again right after it ran
SetupRmtree ==
  /\ \/ pc = "setup_rmtree"
     \/ pc = "explore" /\ setups <= MaxSetupReruns
  /\ fs' = ClearWorkspace(fs)
  /\ pc' = "setup_mkdir_workspace"
  /\ UNCHANGED << source_query, sql, df, train_stats, schema, loaded, error, failed_at, log,
                  setups, edits, age, dataset_name, table, fs_before >>

\* tf.io.gfile.mkdir(WORKSPACE)
SetupMkdirWorkspace ==
  /\ pc = "setup_mkdir_workspace"
  /\ CanMkdir(fs, WORKSPACE)
  /\ fs' = Mkdir(fs, WORKSPACE)
  /\ pc' = "setup_mkdir_data"
  /\ UNCHANGED << source_query, sql, df, train_stats, schema, loaded, error, failed_at, log,
                  setups, edits, age, dataset_name, table, fs_before >>

\* tf.io.gfile.mkdir(DATA_DIR)
SetupMkdirData ==
  /\ pc = "setup_mkdir_data"
  /\ CanMkdir(fs, DATA_DIR)
  /\ fs' = Mkdir(fs, DATA_DIR)
  /\ pc' = "explore"
  /\ setups' = setups + 1
  /\ Completed("setup")
  /\ UNCHANGED << source_query, sql, df, train_stats, schema, loaded, error, failed_at,
                  edits, age, dataset_name, table, fs_before >>

(* ---- exploration and the query ----------------------------------------- *)
\* the %%bigquery cells and their plots: nothing the later cells read
Explore ==
  /\ pc = "explore"
  /\ pc' = "define_query"
  /\ Completed("explore")
  /\ UNCHANGED << fs, source_query, sql, df, train_stats, schema, loaded, error, failed_at,
                  setups, edits, age, dataset_name, table, fs_before >>

\* SOURCE_QUERY = """..."""
DefineSourceQuery ==
  /\ pc = "define_query"
  /\ source_query' = SOURCE_QUERY
  /\ pc' = "template"
  /\ Completed("define_query")
  /\ UNCHANGED << fs, sql, df, train_stats, schema, loaded, error, failed_at,
                  setups, edits, age, dataset_name, table, fs_before >>

\* sql = SOURCE_QUERY.replace('@age', '100').replace('@dataset_name', 'sample_dataset')
Template ==
  /\ pc = "template"
  /\ sql' = GenerateSql(source_query, age, dataset_name)
  /\ pc' = "query"
  /\ Completed("template")
  /\ UNCHANGED << fs, source_query, df, train_stats, schema, loaded, error, failed_at,
                  setups, edits, age, dataset_name, table, fs_before >>

\* the frame the warehouse returns for a query text
QueryResult(text, rows) == [columns |-> OutputColumns(text), rows |-> RunQuery(text, rows)]

\* df = client.query(sql).to_dataframe()
ExecuteQuery ==
  /\ pc = "query"
  /\ ParseQuery(sql).ok
  /\ df' = QueryResult(sql, table)
  /\ pc' = "generate_source_query"
  /\ Completed("query")
  /\ UNCHANGED << fs, source_query, sql, train_stats, schema, loaded, error, failed_at,
                  setups, edits, age, dataset_name, table, fs_before >>

\* the dataset name sql_utils.generate_source_query falls back to
DefaultDataset == <<"s","a","m","p","l","e","_","d","a","t","a","s","e","t","s">>

\* from modules import sql_utils; sql = sql_utils.generate_source_query(age=100)
GenerateSourceQuery ==
  /\ pc = "generate_source_query"
  /\ sql' = GenerateSql(source_query, age, DefaultDataset)
  /\ pc' = "to_csv"
  /\ Completed("generate_source_query")
  /\ UNCHANGED << fs, source_query, df, train_stats, schema, loaded, error, failed_at,
                  setups, edits, age, dataset_name, table, fs_before >>

(* ---- the CSV hand-off, statistics, schema ------------------------------- *)
\* a to_csv that returns before the file is written
WriteCsvDeferred ==
  /\ pc = "to_csv"
  /\ pc' = "statistics"
  /\ Completed("to_csv")
  /\ UNCHANGED << fs, source_query, sql, df, train_stats, schema, loaded, error, failed_at,
                  setups, edits, age, dataset_name, table, fs_before >>

\* df.to_csv(TRAIN_DATA_FILE, index=False)
WriteCsv ==
  /\ pc = "to_csv"
  /\ CanWrite(fs, TRAIN_DATA_FILE)
  /\ fs' = WriteFile(fs, TRAIN_DATA_FILE, ToCsv(df))
  /\ pc' = "statistics"
  /\ Completed("to_csv")
  /\ UNCHANGED << source_query, sql, df, train_stats, schema, loaded, error, failed_at,
                  setups, edits, age, dataset_name, table, fs_before >>

\* train_stats = tfdv.generate_statistics_from_csv(data_location=TRAIN_DATA_FILE, ...)
ComputeStatistics ==
  /\ pc = "statistics"
  /\ Exists(fs, TRAIN_DATA_FILE)
  /\ train_stats' = GenerateStatistics(fs[TRAIN_DATA_FILE].content)
  /\ pc' = "infer_schema"
  /\ Completed("statistics")
  /\ UNCHANGED << fs, source_query, sql, df, schema, loaded, error, failed_at,
                  setups, edits, age, dataset_name, table, fs_before >>

\* schema = tfdv.infer_schema(statistics=train_stats)
InferSchemaCell ==
  /\ pc = "infer_schema"
  /\ schema' = InferSchema(train_stats)
  /\ pc' = "alter_schema"
  /\ Completed("infer_schema")
  /\ UNCHANGED << fs, source_query, sql, df, train_stats, loaded, error, failed_at,
                  setups, edits, age, dataset_name, table, fs_before >>

\* the "Alter the Schema" cell: next in order, or executed again right after it ran
AlterSchemaCell ==
  /\ \/ pc = "alter_schema"
     \/ pc = "save_rmtree" /\ edits < MaxEdits
  /\ CanAlter(schema)
  /\ schema' = AlterSchema(schema)
  /\ edits' = edits + 1
  /\ pc' = "save_rmtree"
  /\ Completed("alter_schema")
  /\ UNCHANGED << fs, source_query, sql, df, train_stats, loaded, error, failed_at,
                  setups, age, dataset_name, table, fs_before >>

\* a lookup by name raises ValueError; the statements before it have run
AlterSchemaFails ==
  /\ pc = "alter_schema"
  /\ ~CanAlter(schema)
  /\ schema' = AlterSchemaPartial(schema)
  /\ Halt("alter_schema")
  /\ UNCHANGED << fs, source_query, sql, df, train_stats, loaded, log,
                  setups, edits, age, dataset_name, table, fs_before >>

(* ---- the "Save the Schema" cell and the reload --------------------------- *)
\* a save that writes into the directory as it finds it
ClearSchemaDirKeep(f) == f

\* if os.path.exists(RAW_SCHEMA_DIR): shutil.rmtree(RAW_SCHEMA_DIR)
ClearSchemaDir(f) == IF Exists(f, RAW_SCHEMA_DIR) THEN Rmtree(f, RAW_SCHEMA_DIR) ELSE f

SaveRmtree ==
  /\ pc = "save_rmtree"
  /\ fs' = ClearSchemaDir(fs)
  /\ pc' = "save_mkdir"
  /\ UNCHANGED << source_query, sql, df, train_stats, schema, loaded, error, failed_at, log,
                  setups, edits, age, dataset_name, table, fs_before >>

\* os.mkdir(RAW_SCHEMA_DIR)
SaveMkdir ==
  /\ pc = "save_mkdir"
  /\ CanMkdir(fs, RAW_SCHEMA_DIR)
  /\ fs' = Mkdir(fs, RAW_SCHEMA_DIR)
  /\ pc' = "save_write"
  /\ UNCHANGED << source_query, sql, df, train_stats, schema, loaded, error, failed_at, log,
                  setups, edits, age, dataset_name, table, fs_before >>

\* tfdv.write_schema_text(schema, raw_schema_location)
SaveWrite ==
  /\ pc = "save_write"
  /\ CanWrite(fs, raw_schema_location)
  /\ fs' = WriteSchemaText(fs, schema, raw_schema_location)
  /\ pc' = "load_schema"
  /\ Completed("save_schema")
  /\ UNCHANGED << source_query, sql, df, train_stats, schema, loaded, error, failed_at,
                  setups, edits, age, dataset_name, table, fs_before >>

\* tfdv.load_schema_text(raw_schema_location)
LoadSchema ==
  /\ pc = "load_schema"
  /\ Exists(fs, raw_schema_location)
  /\ loaded' = LoadSchemaText(fs, raw_schema_location)
  /\ pc' = "done"
  /\ Completed("load_schema")
  /\ UNCHANGED << fs, source_query, sql, df, train_stats, schema, error, failed_at,
                  setups, edits, age, dataset_name, table, fs_before >>

(* ---- failures ------------------------------------------------------------ *)
\* a call into the warehouse client, the import of sql_utils, or the
\* validation library raises; it has changed nothing
CallFails ==
  /\ pc \in {"explore", "query", "generate_source_query", "statistics", "infer_schema",
             "load_schema"}
  /\ Halt(pc)
  /\ UNCHANGED << fs, source_query, sql, df, train_stats, schema, loaded, log,
                  setups, edits, age, dataset_name, table, fs_before >>

\* the directory a removal works on
RmtreeTarget(step) == IF step = "setup_rmtree" THEN WORKSPACE ELSE RAW_SCHEMA_DIR

\* a removal or a mkdir raises; a removal may have removed the content of
\* the directory already
DirectoryCallFails ==
  /\ pc \in {"setup_rmtree", "setup_mkdir_workspace", "setup_mkdir_data",
             "save_rmtree", "save_mkdir"}
  /\ \/ fs' = fs
     \/ /\ pc \in {"setup_rmtree", "save_rmtree"}
        /\ Entries(fs, RmtreeTarget(pc)) # {}
        /\ fs' = Mkdir(Rmtree(fs, RmtreeTarget(pc)), RmtreeTarget(pc))
  /\ Halt(pc)
  /\ UNCHANGED << source_query, sql, df, train_stats, schema, loaded, log,
                  setups, edits, age, dataset_name, table, fs_before >>

\* the file a write goes to, and what it would hold
WriteTarget(step) == IF step = "to_csv" THEN TRAIN_DATA_FILE ELSE raw_schema_location
WriteContent(step) == IF step = "to_csv" THEN ToCsv(df) ELSE SchemaToText(schema)

\* a write raises: before the file is opened, or after part of it is written
WriteFails ==
  /\ pc \in {"to_csv", "save_write"}
  /\ \/ fs' = fs
     \/ /\ CanWrite(fs, WriteTarget(pc))
        /\ \E n \in {0, 1} : fs' = WriteFile(fs, WriteTarget(pc), SubSeq(WriteContent(pc), 1, n))
  /\ Halt(pc)
  /\ UNCHANGED << source_query, sql, df, train_stats, schema, loaded, log,
                  setups, edits, age, dataset_name, table, fs_before >>

Next ==
  \/ SetupRmtree \/ SetupMkdirWorkspace \/ SetupMkdirData
  \/ Explore \/ DefineSourceQuery \/ Template \/ ExecuteQuery \/ GenerateSourceQuery
  \/ WriteCsv \/ ComputeStatistics \/ InferSchemaCell \/ AlterSchemaCell \/ AlterSchemaFails
  \/ SaveRmtree \/ SaveMkdir \/ SaveWrite \/ LoadSchema
  \/ CallFails \/ DirectoryCallFails \/ WriteFails

Spec == Init /\ [][Next]_vars

(***************************************************************************)
(* The templating and the query as functions of their inputs: the age      *)
(* threshold, the dataset name and the table are drawn from bounded sets,  *)
(* and the two substitutions are applied one at a time, in either order.   *)
(***************************************************************************)
InitSql ==
  /\ pc = "template"
  /\ age \in Ages
  /\ dataset_name \in Datasets
  /\ table \in Tables
  /\ source_query = SOURCE_QUERY
  /\ sql = SOURCE_QUERY
  /\ fs = NoFs
  /\ fs_before = NoFs
  /\ df = NoFrame
  /\ train_stats = NoStats
  /\ schema = EmptySchema
  /\ loaded = EmptySchema
  /\ error = "none"
  /\ failed_at = "none"
  /\ log = << >>
  /\ setups = 0
  /\ edits = 0

\* .replace('@age', str(age)) applied first or second
ReplaceAge ==
  /\ pc \in {"template", "dataset_substituted"}
  /\ sql' = SubstituteAge(sql, age)
  /\ pc' = IF pc = "template" THEN "age_substituted" ELSE "query"
  /\ log' = IF pc = "template" THEN log ELSE Append(log, "template")
  /\ UNCHANGED << fs, source_query, df, train_stats, schema, loaded, error, failed_at,
                  setups, edits, age, dataset_name, table, fs_before >>

\* .replace('@dataset_name', dataset_name) applied first or second
ReplaceDataset ==
  /\ pc \in {"template", "age_substituted"}
  /\ sql' = SubstituteDataset(sql, dataset_name)
  /\ pc' = IF pc = "template" THEN "dataset_substituted" ELSE "query"
  /\ log' = IF pc = "template" THEN log ELSE Append(log, "template")
  /\ UNCHANGED << fs, source_query, df, train_stats, schema, loaded, error, failed_at,
                  setups, edits, age, dataset_name, table, fs_before >>

\* the substitutions one at a time in either order, the notebook's chained
\* statement, and the query on the text they produce
NextSql == ReplaceAge \/ ReplaceDataset \/ Template \/ ExecuteQuery

SpecSql == InitSql /\ [][NextSql]_vars

(***************************************************************************)
(* Properties of the templating and of the generated query (SpecSql).      *)
(***************************************************************************)
Templated == pc \in {"query", "generate_source_query"}
Queried == pc = "generate_source_query"

\* C1: for every age threshold and dataset name, the generated SQL contains
\* 'age <= <age>' with the age as a decimal literal (and that literal is the
\* whole right-hand side of the filter), reads from '<dataset>.census', and
\* holds no '@age' or '@dataset_name' token any more.
C1_GeneratedSqlNamesAgeAndTable ==
  Templated =>
    /\ Contains(sql, <<"a","g","e"," ","<","="," ">> \o IntToStr(age))
    /\ Contains(sql, dataset_name \o <<".","c","e","n","s","u","s">>)
    /\ ~Contains(sql, AgeToken)
    /\ ~Contains(sql, DatasetToken)
    /\ LET q == ParseQuery(sql)
       IN /\ q.ok
          /\ q.where_column = <<"a","g","e">>
          /\ StrToInt(q.where_literal) = age
          /\ q.table = dataset_name \o <<".","c","e","n","s","u","s">>

\* a negative threshold and a dataset name that spells a word of the template
C1_Witness == Templated /\ age = -1 /\ dataset_name = <<"a","g","e">> /\ Contains(sql, <<"a","g","e"," ","<","="," ","-","1">>)

\* the template with each token's single occurrence replaced by the given texts
Spliced(ageText, datasetText) ==
  LET i == NextMatch(SOURCE_QUERY, 1, DatasetToken)
      j == NextMatch(SOURCE_QUERY, 1, AgeToken)
  IN SubSeq(SOURCE_QUERY, 1, i - 1) \o datasetText
     \o SubSeq(SOURCE_QUERY, i + Len(DatasetToken), j - 1) \o ageText
     \o SubSeq(SOURCE_QUERY, j + Len(AgeToken), Len(SOURCE_QUERY))

\* C2: templating alters the two tokens and nothing else: each token occurs
\* once in the template, the output is the template with those two
\* occurrences replaced and every other character in place, in whichever
\* order the substitutions are applied, and the template is left as it was.
C2_OnlyTheTwoTokensChange ==
  /\ source_query = SOURCE_QUERY
  /\ Count(SOURCE_QUERY, AgeToken) = 1
  /\ Count(SOURCE_QUERY, DatasetToken) = 1
  /\ NextMatch(SOURCE_QUERY, 1, DatasetToken) < NextMatch(SOURCE_QUERY, 1, AgeToken)
  /\ pc = "age_substituted" => sql = Spliced(IntToStr(age), DatasetToken)
  /\ pc = "dataset_substituted" => sql = Spliced(AgeToken, dataset_name)
  /\ Templated => sql = Spliced(IntToStr(age), dataset_name)

\* the notebook's own values, age 100 and 'sample_dataset'
C2_Witness ==
  /\ pc = "query"
  /\ age = NotebookAge
  /\ dataset_name = NotebookDataset
  /\ Len(sql) = Len(SOURCE_QUERY) - Len(AgeToken) - Len(DatasetToken) + 3 + Len(NotebookDataset)

\* the rows of the table that pass the filter age <= <age>
RowsInRange ==
  LET InRange(r) == r[<<"a","g","e">>] # NULL /\ r[<<"a","g","e">>].int <= age
  IN SelectSeq(table, InRange)

\* C3: the query selects exactly the fifteen columns of the fixed list, and
\* in every extracted row the label is 0 or 1: 0 exactly when the source
\* row's income_bracket is ' <=50K', 1 for any other value and for a missing
\* one.
C3_FixedColumnsAndBinaryLabel ==
  /\ Templated => OutputColumns(sql) = SelectedColumns
  /\ Queried =>
       /\ df.columns = SelectedColumns
       /\ Len(df.rows) = Len(RowsInRange)
       /\ \A k \in 1..Len(df.rows) :
            /\ DOMAIN df.rows[k] = {SelectedColumns[c] : c \in 1..Len(SelectedColumns)}
            /\ df.rows[k][TARGET_FEATURE_NAME] \in {IntVal(0), IntVal(1)}
            /\ df.rows[k][TARGET_FEATURE_NAME] = IntVal(0)
                 <=> RowsInRange[k][TARGET_FEATURE_NAME] = LowBracket

\* a row with a missing label and one with the expected low label were extracted
C3_Witness ==
  /\ Queried
  /\ \E k \in 1..Len(df.rows) :
       RowsInRange[k][TARGET_FEATURE_NAME] = NULL /\ df.rows[k][TARGET_FEATURE_NAME] = IntVal(1)
  /\ \E k \in 1..Len(df.rows) :
       RowsInRange[k][TARGET_FEATURE_NAME] = LowBracket /\ df.rows[k][TARGET_FEATURE_NAME] = IntVal(0)

(***************************************************************************)
(* Properties of the pipeline (Spec).                                      *)
(***************************************************************************)
Did(step) == \E k \in 1..Len(log) : log[k] = step

RECURSIVE Repeat(_, _)
Repeat(s, k) == IF k = 0 THEN << >> ELSE s \o Repeat(s, k - 1)

\* the schema as schema inference returned it in this run
FreshSchema == InferSchema(train_stats)

\* C4: the schema document, written to raw_schema/schema.pbtxt and loaded
\* again, comes back equal field for field; this holds of every schema
\* document the run produces (as inferred, edited once, edited repeatedly).
C4_SchemaRoundTrip ==
  /\ pc \in {"alter_schema", "save_rmtree", "load_schema"}
       => TextToSchema(SchemaToText(schema)) = schema
  /\ pc = "done" =>
       /\ fs[raw_schema_location].content = SchemaToText(schema)
       /\ loaded = schema
       /\ loaded.feature = schema.feature
       /\ loaded.string_domain = schema.string_domain
       /\ loaded.default_environment = schema.default_environment

\* a schema edited twice, with its duplicated entries, was written and reloaded
C4_Witness ==
  /\ pc = "done"
  /\ edits = 2
  /\ Len(loaded.default_environment) = 6
  /\ GetFeature(loaded, <<"o","c","c","u","p","a","t","i","o","n">>).min_domain_mass = Tenths(9)

\* everything at or below the workspace root
UnderWorkspace(f) == {q \in DOMAIN f : IsPrefix(WORKSPACE, q)}

\* C5: whenever the setup cell has completed (once, twice in succession, or
\* more often), whatever the workspace root held before, the root exists and
\* holds exactly one entry, the empty directory 'data'.
C5_SetupLeavesOnlyEmptyDataDir ==
  pc = "explore" =>
    /\ setups >= 1
    /\ IsDir(fs, WORKSPACE)
    /\ IsDir(fs, DATA_DIR)
    /\ Entries(fs, WORKSPACE) = {DATA_DIR}
    /\ Entries(fs, DATA_DIR) = {}
    /\ UnderWorkspace(fs) = {WORKSPACE, DATA_DIR}

\* second invocation in succession, over a workspace that held files
C5_Witness ==
  /\ pc = "explore"
  /\ setups = 2
  /\ Exists(fs_before, TRAIN_DATA_FILE)
  /\ Exists(fs_before, PathJoin(WORKSPACE, "notes.txt"))

\* a feature with the two fields the edits touch put back to their inferred state
Unedited(f) == [f EXCEPT !.min_domain_mass = NoConstraint, !.not_in_environment = << >>]

\* the schema holds the result of at least one complete execution of the edit cell
Edited == edits >= 1 /\ Did("alter_schema")

\* C6: after the edit cell has run once on a freshly inferred schema,
\* occupation's min_domain_mass is 0.9, 'Egypt' is in (at the end of) the
\* native_country domain, default_environment is exactly TRAINING,
\* EVALUATION, SERVING, the label alone has SERVING in not_in_environment,
\* and every other field is as inferred.
C6_EditOutcome ==
  (Edited /\ edits = 1) =>
    /\ FreshSchema.default_environment = << >>
    /\ GetFeature(FreshSchema, TARGET_FEATURE_NAME).not_in_environment = << >>
    /\ \A k \in 1..Len(GetDomain(FreshSchema, <<"n","a","t","i","v","e","_","c","o","u","n","t","r","y">>).value) :
         GetDomain(FreshSchema, <<"n","a","t","i","v","e","_","c","o","u","n","t","r","y">>).value[k] # <<"E","g","y","p","t">>
    /\ GetFeature(schema, <<"o","c","c","u","p","a","t","i","o","n">>).min_domain_mass = Tenths(9)
    /\ GetDomain(schema, <<"n","a","t","i","v","e","_","c","o","u","n","t","r","y">>).value =
         Append(GetDomain(FreshSchema, <<"n","a","t","i","v","e","_","c","o","u","n","t","r","y">>).value, <<"E","g","y","p","t">>)
    /\ schema.default_environment = << <<"T","R","A","I","N","I","N","G">>, <<"E","V","A","L","U","A","T","I","O","N">>, <<"S","E","R","V","I","N","G">> >>
    /\ Len(schema.feature) = Len(FreshSchema.feature)
    /\ \A k \in 1..Len(schema.feature) :
         /\ schema.feature[k].not_in_environment =
              IF schema.feature[k].name = TARGET_FEATURE_NAME THEN << <<"S","E","R","V","I","N","G">> >> ELSE << >>
         /\ schema.feature[k].min_domain_mass =
              IF schema.feature[k].name = <<"o","c","c","u","p","a","t","i","o","n">> THEN Tenths(9) ELSE NoConstraint
         /\ Unedited(schema.feature[k]) = FreshSchema.feature[k]
    /\ Len(schema.string_domain) = Len(FreshSchema.string_domain)
    /\ \A k \in 1..Len(schema.string_domain) :
         schema.string_domain[k].name # <<"n","a","t","i","v","e","_","c","o","u","n","t","r","y">>
           => schema.string_domain[k] = FreshSchema.string_domain[k]

\* the edit cell has run once on the schema inferred from the mixed table
C6_Witness ==
  /\ pc = "save_rmtree"
  /\ edits = 1
  /\ table = TableMixed
  /\ GetDomain(schema, <<"n","a","t","i","v","e","_","c","o","u","n","t","r","y">>).value = << <<"M","e","x","i","c","o">>, <<"C","a","m","b","o","d","i","a">>, <<"E","g","y","p","t">> >>

RECURSIVE AlterTimes(_, _)
AlterTimes(sch, k) == IF k = 0 THEN sch ELSE AlterSchema(AlterTimes(sch, k - 1))

\* the position of a step in the notebook
Pos(step) == CHOOSE k \in 1..Len(StepOrder) : StepOrder[k] = step

\* the step a statement belongs to
StepOf(stmt) ==
  CASE stmt \in {"setup_rmtree", "setup_mkdir_workspace", "setup_mkdir_data"} -> "setup"
    [] stmt \in {"save_rmtree", "save_mkdir", "save_write"} -> "save_schema"
    [] OTHER -> stmt

LastPos == IF log = << >> THEN 0 ELSE Pos(log[Len(log)])

\* C7: the steps run strictly in notebook order, each after the one before it
\* has completed (the setup and edit cells may be executed again right after
\* they ran): statistics are computed from the train.csv this run has fully
\* written, the schema file is written after all four edits and holds them,
\* and the reload reads the file the write has completed.
C7_StrictlySequential ==
  /\ \A k \in 1..Len(log) :
       IF k = 1 THEN log[k] = "setup"
       ELSE \/ Pos(log[k]) = Pos(log[k - 1]) + 1
            \/ log[k] = log[k - 1] /\ log[k] \in {"setup", "alter_schema"}
  /\ pc \notin {"done", "halted"} =>
       \/ Pos(StepOf(pc)) = LastPos + 1
       \/ StepOf(pc) = "setup" /\ LastPos = Pos("setup")
  /\ pc = "done" => LastPos = Len(StepOrder)
  /\ Did("query") => Did("template") /\ df.columns = SelectedColumns
  /\ Did("to_csv") =>
       /\ Did("query")
       /\ Exists(fs, TRAIN_DATA_FILE)
       /\ fs[TRAIN_DATA_FILE].content = ToCsv(df)
  /\ Did("statistics") => Did("to_csv") /\ train_stats = GenerateStatistics(ToCsv(df))
  /\ Did("alter_schema") => Did("infer_schema")
  /\ Did("save_schema") =>
       /\ Edited
       /\ schema = AlterTimes(FreshSchema, edits)
       /\ Exists(fs, raw_schema_location)
       /\ fs[raw_schema_location].content = SchemaToText(schema)
  /\ Did("load_schema") =>
       /\ Did("save_schema")
       /\ loaded = TextToSchema(fs[raw_schema_location].content)

\* a complete run in which both the setup cell and the edit cell ran twice
C7_Witness ==
  /\ pc = "done"
  /\ setups = 2
  /\ edits = 2
  /\ Len(log) = Len(StepOrder) + 2

\* everything at or below raw_schema
UnderRawSchema(f) == [q \in {r \in DOMAIN f : IsPrefix(RAW_SCHEMA_DIR, r)} |-> f[q]]

SaveStatements == {"save_rmtree", "save_mkdir", "save_write"}

\* C8: a failing step halts the run with the exception as the failing call
\* raised it; the failed step is not run again and no later step runs
\* (nothing is enabled after the halt, and no step after the failed one has
\* completed); a failed query leaves no train.csv, and a failure before the
\* save cell leaves raw_schema as the run found it.
C8_FailureHaltsTheRun ==
  /\ error # "none" <=> pc = "halted"
  /\ failed_at # "none" <=> pc = "halted"
  /\ pc = "halted" =>
       /\ error = ErrorRaisedAt(failed_at)
       /\ ~ENABLED Next
       /\ \A k \in 1..Len(log) : Pos(log[k]) <= Pos(StepOf(failed_at))
       /\ Pos(StepOf(failed_at)) \in {LastPos, LastPos + 1}
       /\ failed_at = "query" => ~Exists(fs, TRAIN_DATA_FILE) /\ df = NoFrame
       /\ failed_at \notin SaveStatements \cup {"load_schema"}
            => UnderRawSchema(fs) = UnderRawSchema(fs_before)

\* the query failed in a run that found a train.csv and a schema file from
\* an earlier run
C8_Witness ==
  /\ pc = "halted"
  /\ failed_at = "query"
  /\ error = "google.api_core.exceptions.GoogleAPIError"
  /\ Exists(fs_before, TRAIN_DATA_FILE)
  /\ Exists(fs, raw_schema_location)

\* the label feature and the native_country domain of a schema
LabelOf(sch) == GetFeature(sch, TARGET_FEATURE_NAME)
CountriesOf(sch) == GetDomain(sch, <<"n","a","t","i","v","e","_","c","o","u","n","t","r","y">>).value

\* C9: after k >= 1 executions of the edit cell on one schema document,
\* default_environment holds k copies of TRAINING, EVALUATION, SERVING, the
\* native_country domain holds the inferred values followed by k copies of
\* 'Egypt', the label's not_in_environment holds k copies of 'SERVING', and
\* occupation's min_domain_mass is 0.9: another execution changes the
\* list-valued fields again and leaves the scalar as it is.
C9_EditsAccumulate ==
  Edited =>
    /\ schema.default_environment = Repeat(<< <<"T","R","A","I","N","I","N","G">>, <<"E","V","A","L","U","A","T","I","O","N">>, <<"S","E","R","V","I","N","G">> >>, edits)
    /\ CountriesOf(schema) = CountriesOf(FreshSchema) \o Repeat(<< <<"E","g","y","p","t">> >>, edits)
    /\ LabelOf(schema).not_in_environment = Repeat(<< <<"S","E","R","V","I","N","G">> >>, edits)
    /\ GetFeature(schema, <<"o","c","c","u","p","a","t","i","o","n">>).min_domain_mass = Tenths(9)
    /\ RelaxOccupation(schema) = schema
    /\ AlterSchema(schema) # schema
    /\ Len(AlterSchema(schema).default_environment) = 3 * (edits + 1)

\* the edit cell has run three times
C9_Witness ==
  /\ pc = "save_rmtree"
  /\ edits = 3
  /\ Len(schema.default_environment) = 9
  /\ LabelOf(schema).not_in_environment = << <<"S","E","R","V","I","N","G">>, <<"S","E","R","V","I","N","G">>, <<"S","E","R","V","I","N","G">> >>

\* the failed write left nothing, or the beginning of the new text
PartialSchemaFile ==
  Exists(fs, raw_schema_location) =>
    /\ fs[raw_schema_location].kind = "file"
    /\ Len(fs[raw_schema_location].content) < Len(SchemaToText(schema))
    /\ fs[raw_schema_location].content =
         SubSeq(SchemaToText(schema), 1, Len(fs[raw_schema_location].content))

\* C10: the save cell removes and recreates raw_schema before it writes:
\* once it has completed, raw_schema holds exactly one entry, schema.pbtxt,
\* with the current schema document, whatever it held before; between the
\* removal and the completed write no schema file exists, and a failure in
\* that window leaves the earlier schema file gone.
C10_SaveClearsThenWrites ==
  /\ Did("save_schema") =>
       /\ IsDir(fs, RAW_SCHEMA_DIR)
       /\ DOMAIN UnderRawSchema(fs) = {RAW_SCHEMA_DIR, raw_schema_location}
       /\ fs[raw_schema_location] = File(SchemaToText(schema))
  /\ pc \in {"save_mkdir", "save_write"} =>
       /\ ~Exists(fs, raw_schema_location)
       /\ DOMAIN UnderRawSchema(fs) \subseteq {RAW_SCHEMA_DIR}
  /\ (pc = "halted" /\ failed_at \in {"save_mkdir", "save_write"}) =>
       /\ PartialSchemaFile
       /\ DOMAIN UnderRawSchema(fs) \subseteq {RAW_SCHEMA_DIR, raw_schema_location}

\* mkdir failed after the removal: the schema file of the earlier run is gone
\* and no new one exists
C10_Witness ==
  /\ pc = "halted"
  /\ failed_at = "save_mkdir"
  /\ Exists(fs_before, raw_schema_location)
  /\ fs_before[raw_schema_location] = File(StaleText)
  /\ ~Exists(fs, raw_schema_location)
  /\ ~Exists(fs, RAW_SCHEMA_DIR)

====
